---- MODULE Spec2Model ----
(***************************************************************************)
(* The undo engine of ckeditor5-undo: two UndoCommand instances ("undo"    *)
(* and "redo"), each with its item stack and batch registry, and the       *)
(* document 'change' listener of UndoEngine.init that routes batches to    *)
(* them.                                                                   *)
(*                                                                         *)
(* A batch is an identity in 1..MaxVersion; 0 stands for null (no batch    *)
(* argument).  A batch that has no delta yet has not been created.  Every  *)
(* delta carries one operation, so one applied delta is one 'change'       *)
(* event; of a batch's deltas the model keeps their number.                *)
(***************************************************************************)
EXTENDS Integers, Sequences, FiniteSets, TLC

(* The document takes MaxVersion operations; every batch that exists has   *)
(* at least one applied operation, so MaxVersion identities are enough.    *)
MaxVersion == 4

Batches == 1..MaxVersion
Commands == {"undo", "redo"}

(* Two document selections, told apart by their ranges and direction. *)
Selections == {"s0", "s1"}

VARIABLES
    _items,          \* command -> sequence of { batch, selection }
    _batchRegistry,  \* command -> set of batches (the WeakSet)
    isEnabled,       \* command -> Command#isEnabled
    type,            \* batch -> Batch#type ("undefined" is the unset type)
    deltas,          \* batch -> number of deltas of the batch (Batch#deltas.length)
    version,         \* Document#version: the number of operations applied
    selection,       \* the document selection
    last,            \* what the last run of the change listener or of a command did
    history,         \* Document#history: the batch of every applied delta, in order
    step,            \* the locals and the position of the running _doExecute
    log,             \* the calls and events of the last run of _doExecute, in order
    detachedOnly,    \* the batches none of whose operations touches a document root
    restore,         \* the locals and the position of the selection part of _doExecute
    scan,            \* the locals of the loop that transforms one saved range
    _originalDeltas, \* command -> the WeakMap from transformed deltas to their originals
    upDelta          \* the delta the last run of postFix was given, before and after

vars == <<_items, _batchRegistry, isEnabled, type, deltas, version, selection, last,
          history, step, log, detachedOnly, restore, scan, _originalDeltas, upDelta>>

(* The variables of postFix. *)
fixVars == <<_originalDeltas, upDelta>>

(* The variables that follow one run of _doExecute statement by statement. *)
stepVars == <<history, step, log>>

----------------------------------------------------------------------------
(* The state of the two commands, passed through the calls of one handler. *)

CommandState == [items |-> _items, reg |-> _batchRegistry, en |-> isEnabled]

_checkEnabled(S, c) == Len(S.items[c]) > 0

refreshState(S, c) == [S EXCEPT !.en[c] = _checkEnabled(S, c)]

addBatchNoRegistry(S, c, batch, sel) ==
    refreshState([S EXCEPT !.items[c] = Append(@, [batch |-> batch, selection |-> sel]),
                           !.reg[c] = @ \cup {batch}], c)

addBatch(S, c, batch, sel) ==
    IF batch \notin S.reg[c]
    THEN refreshState([S EXCEPT !.items[c] = Append(@, [batch |-> batch, selection |-> sel]),
                                !.reg[c] = @ \cup {batch}], c)
    ELSE S

clearStack(S, c) == refreshState([S EXCEPT !.items[c] = <<>>], c)

changeListenerClearsOnUndo(S, batch, t, sel) ==
    IF t = "undefined" THEN clearStack(addBatch(S, "undo", batch, sel), "redo")
    ELSE IF t = "undo" THEN clearStack(addBatch(S, "redo", batch, sel), "redo")
    ELSE IF t = "redo" THEN addBatch(S, "undo", batch, sel)
    ELSE S

changeListenerBothStacks(S, batch, t, sel) ==
    IF t = "undefined" THEN clearStack(addBatch(S, "undo", batch, sel), "redo")
    ELSE IF t = "undo" THEN addBatch(addBatch(S, "redo", batch, sel), "undo", batch, sel)
    ELSE IF t = "redo" THEN addBatch(S, "undo", batch, sel)
    ELSE S

changeListener(S, batch, t, sel) ==
    IF t = "undefined" THEN clearStack(addBatch(S, "undo", batch, sel), "redo")
    ELSE IF t = "undo" THEN addBatch(S, "redo", batch, sel)
    ELSE IF t = "redo" THEN addBatch(S, "undo", batch, sel)
    ELSE S

(* The listener run once for each of n applied operations of one batch. *)
RECURSIVE fireChange(_, _, _, _, _)
fireChange(S, batch, t, sel, n) ==
    IF n = 0 THEN S ELSE fireChange(changeListener(S, batch, t, sel), batch, t, sel, n - 1)

----------------------------------------------------------------------------
(* Array helpers, with JavaScript's 0-based indices. *)

findIndex(items, batch) ==
    IF \E i \in 1..Len(items) : items[i].batch = batch
    THEN (CHOOSE i \in 1..Len(items) :
              /\ items[i].batch = batch
              /\ \A j \in 1..(i - 1) : items[j].batch # batch) - 1
    ELSE -1

spliceStart(len, start) ==
    IF start < 0 THEN (IF len + start < 0 THEN 0 ELSE len + start)
    ELSE IF start > len THEN len ELSE start

(* items.splice( start, 1 ): the removed elements and what is left. *)
spliceRemoved(items, start) ==
    LET s == spliceStart(Len(items), start)
    IN  IF s < Len(items) THEN <<items[s + 1]>> ELSE <<>>

spliceLeftAll(items, start) == items

spliceLeft(items, start) ==
    LET s == spliceStart(Len(items), start)
    IN  IF s < Len(items)
        THEN [i \in 1..(Len(items) - 1) |-> IF i <= s THEN items[i] ELSE items[i + 1]]
        ELSE items

(* The smallest batch identity not created yet, 0 when there is none. *)
newBatch ==
    IF \E b \in Batches : deltas[b] = 0
    THEN CHOOSE b \in Batches : deltas[b] = 0 /\ \A a \in 1..(b - 1) : deltas[a] # 0
    ELSE 0

commit(S) ==
    /\ _items' = S.items
    /\ _batchRegistry' = S.reg
    /\ isEnabled' = S.en

(* last: op is "change" or the command that ran, batch the batch of the   *)
(* change or the argument of the command, threw whether the run threw.     *)
NoRun == [op |-> "none", batch |-> 0, threw |-> FALSE]

(* step: pc is "idle" (no run), "scope" (in the callback given to          *)
(* enqueueChanges) or "after" (at the statements after the enqueueChanges  *)
(* call); the other fields are the locals of _doExecute.                   *)
(* restore: pc is "idle", "transform" (at the head of the loop over the    *)
(* saved ranges), "sort" (the range is transformed) or "done"; ranges is   *)
(* the number of saved ranges and originalRange the one the loop is at;    *)
(* roots are the roots of all the pieces the saved ranges were transformed *)
(* to so far.                                                              *)
NoRestore ==
    [pc |-> "idle", ranges |-> 0, isBackward |-> FALSE, originalRange |-> 0,
     transformed |-> <<>>, transformedRanges |-> <<>>, roots |-> {}]

(* scan: pc is "idle", "range" (in the loops over the operations of the    *)
(* deltas, between two operations) or "scan" (in the loop over             *)
(* transformed for one operation); transformed is the array of that name,  *)
(* length its length when the scan of the operation started, t the index   *)
(* of the loop, handled whether the operation is of a type the switch has  *)
(* a case for; visited are the ranges the scan has been at so far, each    *)
(* with the size of the result it got.  A range of transformed is          *)
(* [at, made]: its place in the array when the scan of the operation       *)
(* started, and whether this operation made it.                            *)
NoScan ==
    [pc |-> "idle", transformed |-> <<>>, length |-> 0, t |-> 0, handled |-> FALSE,
     visited |-> <<>>]

(* upDelta: its place in the history (id), the place of the first delta of *)
(* the same run of _doExecute (first), whether it is a MoveDelta, the      *)
(* target position and the moved-range start of its operation before       *)
(* postFix (target0, start0) and after it, and the base version the        *)
(* history deltas were taken from.                                         *)
NoDelta ==
    [id |-> 0, first |-> 0, move |-> FALSE, target0 |-> 0, start0 |-> 0, target |-> 0,
     start |-> 0, from |-> 0]

NoStep ==
    [pc |-> "idle", c |-> "none", undoBatch |-> 0, undoDeltas |-> <<>>,
     reversionBatch |-> 0, deferred |-> FALSE, restored |-> FALSE, selDeltas |-> <<>>]

----------------------------------------------------------------------------

Init ==
    /\ _items = [c \in Commands |-> <<>>]
    /\ _batchRegistry = [c \in Commands |-> {}]
    /\ isEnabled \in [Commands -> BOOLEAN]
    /\ type = [b \in Batches |-> "undefined"]
    /\ deltas = [b \in Batches |-> 0]
    /\ version = 0
    /\ selection = "s0"
    /\ last = NoRun
    /\ history = <<>>
    /\ step = NoStep
    /\ log = <<>>
    /\ detachedOnly = {}
    /\ restore = NoRestore
    /\ scan = NoScan
    /\ _originalDeltas = [c \in Commands |-> {}]
    /\ upDelta = NoDelta

(* One operation of batch `batch` is applied to the document outside the   *)
(* commands (a new delta of a new or of an existing batch); the document   *)
(* fires 'change' and the listener of UndoEngine.init runs.                *)
Change(batch) ==
    /\ version < MaxVersion
    /\ deltas[batch] # 0 \/ batch = newBatch
    /\ deltas' = [deltas EXCEPT ![batch] = @ + 1]
    /\ version' = version + 1
    /\ commit(changeListener(CommandState, batch, type[batch], selection))
    /\ last' = [op |-> "change", batch |-> batch, threw |-> FALSE]
    /\ UNCHANGED <<type, selection>>

(* The user moves the selection. *)
SetSelection(sel) ==
    /\ sel # selection
    /\ selection' = sel
    /\ last' = NoRun
    /\ UNCHANGED <<_items, _batchRegistry, isEnabled, type, deltas, version>>

(* reversionBatch.type = this._type: the command's own name. *)
reversionTypeUndo(c) == "undo"

reversionType(c) == c

(* UndoCommand._doExecute( batch ), batch = 0 for no argument.  Its inputs *)
(* from the document: total, the number of deltas the calls of             *)
(* history.getTransformedDelta return for the reversed deltas of the       *)
(* batch, all together (each call may return none); failAt, the            *)
(* applyOperation call that throws (0 when none does); restored, the       *)
(* selection the saved ranges transform to ("none" when every range ends   *)
(* up in the graveyard).  A reversion batch none of whose operations was   *)
(* applied is seen by nobody and takes no identity.                        *)
_doExecute(c, batch) ==
    LET batchIndex == IF batch # 0 THEN findIndex(_items[c], batch) ELSE Len(_items[c]) - 1
        removed == spliceRemoved(_items[c], batchIndex)
        S0 == [CommandState EXCEPT !.items[c] = spliceLeft(_items[c], batchIndex),
                                   !.reg[c] = @ \ {batch}]
    IN  IF removed = <<>>
        THEN \* undoItem is undefined: reading undoItem.batch throws a TypeError
             /\ commit(S0)
             /\ last' = [op |-> c, batch |-> batch, threw |-> TRUE]
             /\ UNCHANGED <<type, deltas, version, selection>>
        ELSE LET undoItem == removed[1]
                 undoBatch == undoItem.batch
                 reversionBatch == newBatch
             IN  \E total \in 0..(MaxVersion - version) :
                 \E failAt \in 0..total :
                 \E restored \in Selections \cup {"none"} :
                   LET threw == failAt # 0
                       applied == IF threw THEN failAt - 1 ELSE total
                       added == IF threw THEN applied + 1 ELSE applied
                       S1 == fireChange(S0, reversionBatch, reversionType(c), selection, applied)
                   IN  /\ applied > 0 => reversionBatch # 0
                       /\ threw => restored = "none"
                       /\ IF applied > 0
                          THEN /\ type' = [type EXCEPT ![reversionBatch] = reversionType(c)]
                               /\ deltas' = [deltas EXCEPT ![reversionBatch] = added]
                          ELSE UNCHANGED <<type, deltas>>
                       /\ version' = version + applied
                       /\ selection' = IF restored = "none" THEN selection ELSE restored
                       /\ commit(IF threw THEN S1 ELSE refreshState(S1, c))
                       /\ last' = [op |-> c, batch |-> batch, threw |-> threw]

(* Command._execute( batch ): the command runs only while it is enabled. *)
_execute(c, batch) ==
    IF isEnabled[c]
    THEN _doExecute(c, batch)
    ELSE UNCHANGED vars

(* Spec takes a command's run as one step, leaves the history out and has  *)
(* every operation touch a document root: the variables of the other       *)
(* specifications stay as Init sets them.                                  *)
Next ==
    \/ \E b \in Batches : Change(b) /\ UNCHANGED <<stepVars, detachedOnly, restore, scan, fixVars>>
    \/ \E s \in Selections :
           SetSelection(s) /\ UNCHANGED <<stepVars, detachedOnly, restore, scan, fixVars>>
    \/ \E c \in Commands : \E b \in Batches \cup {0} :
           /\ b # 0 => deltas[b] # 0
           /\ _execute(c, b)
           /\ UNCHANGED <<stepVars, detachedOnly, restore, scan, fixVars>>

Spec == Init /\ [][Next]_vars

----------------------------------------------------------------------------
(* StepSpec: one run of _doExecute statement by statement.  The history    *)
(* is kept, and log takes every call and event of the run in the order     *)
(* the code makes them, until the next change or run.  The command runs    *)
(* without batch argument here; the argument is Spec's.                    *)

(* An entry of log: the call or event e, of command c, with its batch;     *)
(* d is the delta of undoBatch it belongs to and j its place among the     *)
(* deltas that delta was transformed to (0 where there is none).           *)
Event(e, c, batch, d, j) == [e |-> e, c |-> c, batch |-> batch, d |-> d, j |-> j]

(* The calls the 'change' listener makes for a batch of type t. *)
changeListenerCalls(batch, t) ==
    IF t = "undefined"
    THEN <<Event("addBatch", "undo", batch, 0, 0), Event("clearStack", "redo", 0, 0, 0)>>
    ELSE IF t = "undo"
    THEN <<Event("addBatch", "redo", batch, 0, 0)>>
    ELSE IF t = "redo"
    THEN <<Event("addBatch", "undo", batch, 0, 0)>>
    ELSE <<>>

(* The calls made on a command's 'revert' event: UndoEngine.init registers *)
(* one listener, on the document's 'change', and none on 'revert'.         *)
revertListenerCalls(c, batch) == <<>>

undoDeltasForward(n) == [i \in 1..n |-> i]

(* undoBatch.deltas.slice() reversed: the deltas d1..dn as <<n, ..., 1>>. *)
undoDeltas(n) == [i \in 1..n |-> n + 1 - i]

nextUndoDeltasStopOnNone(rest, k) == IF k = 0 THEN <<>> ELSE Tail(rest)

(* for ( let undoDelta of undoDeltas ): the deltas left after the one the  *)
(* loop body has processed, k the number of deltas it was transformed to.  *)
nextUndoDeltas(rest, k) == Tail(rest)

(* history.getDeltas( from ): the deltas applied from base version `from`  *)
(* on, one operation each.                                                 *)
getDeltas(h, from) == SubSeq(h, from + 1, Len(h))

(* batch.deltas[ 0 ].baseVersion: the version the first delta of the batch *)
(* was applied to.                                                         *)
baseVersion(h, batch) ==
    (CHOOSE i \in 1..Len(h) : h[i] = batch /\ \A k \in 1..(i - 1) : h[k] # batch) - 1

selectionDeltasFromNow(h, batch) == getDeltas(h, Len(h))

(* const deltas = history.getDeltas( undoBatch.deltas[ 0 ].baseVersion ),  *)
(* h the history when the statement runs.                                  *)
selectionDeltas(h, batch) == getDeltas(h, baseVersion(h, batch))

(* The calls of the inner loops for the deltas j..k one delta of undoBatch *)
(* was transformed to: addDelta, then applyOperation, whose 'change' event *)
(* runs the listener; the applyOperation of delta failAt throws.           *)
RECURSIVE loopEvents(_, _, _, _, _, _)
loopEvents(c, d, rev, j, k, failAt) ==
    IF j > k
    THEN <<>>
    ELSE IF j = failAt
    THEN <<Event("addDelta", c, rev, d, j), Event("throw", c, rev, d, j)>>
    ELSE <<Event("addDelta", c, rev, d, j), Event("applyOperation", c, rev, d, j)>>
         \o changeListenerCalls(rev, reversionType(c))
         \o loopEvents(c, d, rev, j + 1, k, failAt)

(* Document.enqueueChanges( callback ): the callback runs at once unless   *)
(* the document is running another enqueued callback; then it is queued    *)
(* and runs when that one has returned.                                    *)
enqueueChanges(pending) == IF pending THEN "after" ELSE "scope"

(* _doExecute up to the enqueueChanges call. *)
StepBegin(c, batch, pending) ==
    LET batchIndex == IF batch # 0 THEN findIndex(_items[c], batch) ELSE Len(_items[c]) - 1
        removed == spliceRemoved(_items[c], batchIndex)
        S0 == [CommandState EXCEPT !.items[c] = spliceLeft(_items[c], batchIndex),
                                   !.reg[c] = @ \ {batch}]
    IN  /\ step.pc = "idle"
        /\ isEnabled[c]
        /\ commit(S0)
        /\ IF removed = <<>>
           THEN /\ last' = [op |-> c, batch |-> batch, threw |-> TRUE]
                /\ step' = NoStep
                /\ log' = <<Event("throw", c, 0, 0, 0)>>
           ELSE /\ last' = [op |-> c, batch |-> batch, threw |-> FALSE]
                /\ step' = [pc |-> enqueueChanges(pending), c |-> c,
                            undoBatch |-> removed[1].batch,
                            undoDeltas |-> undoDeltas(deltas[removed[1].batch]),
                            reversionBatch |-> newBatch, deferred |-> pending,
                            restored |-> FALSE, selDeltas |-> <<>>]
                /\ log' = <<>>
        /\ UNCHANGED <<type, deltas, version, selection, history>>

(* One round of the loop over undoDeltas: the delta is reversed and        *)
(* transformed to k deltas, each added to reversionBatch and applied.      *)
StepDelta(k, failAt) ==
    LET c == step.c
        d == Head(step.undoDeltas)
        rev == step.reversionBatch
        threw == failAt # 0
        applied == IF threw THEN failAt - 1 ELSE k
        added == IF threw THEN failAt ELSE k
    IN  /\ step.pc = "scope"
        /\ step.undoDeltas # <<>>
        /\ k <= MaxVersion - version
        /\ k > 0 => rev # 0
        /\ commit(fireChange(CommandState, rev, reversionType(c), selection, applied))
        /\ version' = version + applied
        /\ history' = history \o [i \in 1..applied |-> rev]
        /\ type' = IF applied > 0 THEN [type EXCEPT ![rev] = reversionType(c)] ELSE type
        /\ deltas' = IF rev # 0 /\ deltas[rev] + applied > 0
                     THEN [deltas EXCEPT ![rev] = @ + added]
                     ELSE deltas
        /\ log' = log \o <<Event("getTransformedDelta", c, step.undoBatch, d, k)>>
                      \o loopEvents(c, d, rev, 1, k, failAt)
        /\ step' = IF threw
                   THEN [step EXCEPT !.pc = "idle"]
                   ELSE [step EXCEPT !.undoDeltas = nextUndoDeltas(@, k)]
        /\ last' = [last EXCEPT !.threw = threw]
        /\ UNCHANGED selection

(* The rest of the callback: the saved ranges are transformed by the       *)
(* deltas of the history and the selection is set to what is left of them  *)
(* (restored, "none" when nothing is left).                                *)
StepSelection(restored) ==
    /\ step.pc = "scope"
    /\ step.undoDeltas = <<>>
    /\ selection' = IF restored = "none" THEN selection ELSE restored
    /\ log' = log \o <<Event("getDeltas", step.c, step.undoBatch, 0, 0)>>
                  \o (IF restored = "none"
                      THEN <<>>
                      ELSE <<Event("setRanges", step.c, step.undoBatch, 0, 0)>>)
    /\ step' = [step EXCEPT !.pc = IF step.deferred THEN "idle" ELSE "after",
                            !.restored = TRUE,
                            !.selDeltas = selectionDeltas(history, step.undoBatch)]
    /\ UNCHANGED <<_items, _batchRegistry, isEnabled, type, deltas, version, last, history>>

(* The statements after the enqueueChanges call. *)
StepEnd ==
    /\ step.pc = "after"
    /\ commit(refreshState(CommandState, step.c))
    /\ log' = log \o <<Event("refreshState", step.c, 0, 0, 0),
                       Event("revert", step.c, step.undoBatch, 0, 0)>>
                  \o revertListenerCalls(step.c, step.undoBatch)
    /\ step' = [step EXCEPT !.pc = IF step.deferred THEN "scope" ELSE "idle"]
    /\ UNCHANGED <<type, deltas, version, selection, last, history>>

(* A change outside the commands, between two runs; the record of the     *)
(* last run is dropped.                                                    *)
StepChange(batch) ==
    /\ step.pc = "idle"
    /\ Change(batch)
    /\ history' = Append(history, batch)
    /\ step' = NoStep
    /\ log' = <<>>

StepNext ==
    \/ \E b \in Batches : StepChange(b) /\ UNCHANGED <<detachedOnly, restore, scan, fixVars>>
    \/ \E c \in Commands : \E pending \in BOOLEAN :
           StepBegin(c, 0, pending) /\ UNCHANGED <<detachedOnly, restore, scan, fixVars>>
    \/ \E k \in 0..MaxVersion : \E failAt \in 0..k :
           StepDelta(k, failAt) /\ UNCHANGED <<detachedOnly, restore, scan, fixVars>>
    \/ \E restored \in Selections \cup {"none"} :
           StepSelection(restored) /\ UNCHANGED <<detachedOnly, restore, scan, fixVars>>
    \/ StepEnd /\ UNCHANGED <<detachedOnly, restore, scan, fixVars>>

StepSpec == Init /\ [][StepNext]_vars

----------------------------------------------------------------------------
(* GuardSpec: the change stream also delivers operations on detached       *)
(* fragments, which touch no document root.                                *)

(* A 'change' event for one operation of `batch`; touchesRoot tells        *)
(* whether the operation touches a document root.  The listener of         *)
(* UndoEngine.init reads the batch's type only.                            *)
GuardChange(batch, touchesRoot) ==
    /\ Change(batch)
    /\ detachedOnly' = IF touchesRoot
                       THEN detachedOnly \ {batch}
                       ELSE IF deltas[batch] = 0
                       THEN detachedOnly \cup {batch}
                       ELSE detachedOnly

(* A command runs, without batch argument.  The reversal of an operation   *)
(* touches a root iff the operation does: the reversion of a batch of      *)
(* detached operations only is such a batch too, the reversion of another  *)
(* batch may be (det).                                                     *)
GuardExecute(c, det) ==
    /\ isEnabled[c]
    /\ _doExecute(c, 0)
    /\ (_items[c] # <<>> /\ _items[c][Len(_items[c])].batch \in detachedOnly) => det
    /\ detachedOnly' = IF det /\ version' > version
                       THEN detachedOnly \cup {newBatch}
                       ELSE detachedOnly

GuardNext ==
    \/ \E b \in Batches : \E touchesRoot \in BOOLEAN :
           GuardChange(b, touchesRoot) /\ UNCHANGED <<stepVars, restore, scan, fixVars>>
    \/ \E c \in Commands : \E det \in BOOLEAN :
           GuardExecute(c, det) /\ UNCHANGED <<stepVars, restore, scan, fixVars>>

GuardSpec == Init /\ [][GuardNext]_vars

----------------------------------------------------------------------------
(* RestoreSpec: the selection part of _doExecute, range by range.  A range *)
(* is [root, start, end], with start and end offsets in that root.         *)

MaxOffset == 1
MaxPieces == 2

Roots == {"main", "graveyard"}

Ranges == {r \in [root : Roots, start : 0..MaxOffset, end : 0..MaxOffset] : r.start <= r.end}

(* The arrays the transformation of one saved range by the operations of   *)
(* the history can leave in `transformed`.                                 *)
Pieces == UNION {[1..n -> Ranges] : n \in 0..MaxPieces}

(* The numbers of ranges of a saved selection. *)
SnapshotSizes == {0, 1, 2}

(* Position#isBefore: a.start is before b.start; positions in different    *)
(* roots are not ordered.                                                  *)
isBefore(a, b) == a.root = b.root /\ a.start < b.start

(* Position#isTouching: a.end touches b.start. *)
isTouching(a, b) == a.root = b.root /\ a.end = b.start

(* The arrays with the ranges of arr in some order. *)
orders(arr) ==
    {[i \in DOMAIN arr |-> arr[p[i]]] :
        p \in {f \in [DOMAIN arr -> DOMAIN arr] : \A i, j \in DOMAIN arr : i # j => f[i] # f[j]}}

sortNot(arr) == {arr}

(* transformed.sort( ( a, b ) => a.start.isBefore( b.start ) ? -1 : 1 ):   *)
(* the comparator orders two ranges only when one start is before the      *)
(* other; for an array with two ranges it does not order (equal starts,    *)
(* different roots) it is not a consistent comparator, and the order the   *)
(* sort leaves is the engine's choice.                                     *)
sort(arr) ==
    IF \A i, j \in DOMAIN arr : i # j => (isBefore(arr[i], arr[j]) \/ isBefore(arr[j], arr[i]))
    THEN {q \in orders(arr) : \A i, j \in DOMAIN q : i < j => isBefore(q[i], q[j])}
    ELSE orders(arr)

(* The loop that merges consecutive touching ranges, from index i on       *)
(* (indices from 1).                                                       *)
RECURSIVE coalesce(_, _)
coalesce(arr, i) ==
    IF i > Len(arr)
    THEN arr
    ELSE IF isTouching(arr[i - 1], arr[i])
    THEN coalesce([k \in 1..(Len(arr) - 1) |->
                      IF k < i - 1 THEN arr[k]
                      ELSE IF k = i - 1 THEN [arr[k] EXCEPT !.end = arr[i].end]
                      ELSE arr[k + 1]], i)
    ELSE coalesce(arr, i + 1)

(* transformed.find( range => range.start.root != graveyard ), as an array *)
(* of the range found, empty when there is none.                           *)
find(arr) ==
    LET found == SelectSeq(arr, LAMBDA r : r.root # "graveyard")
    IN  IF found = <<>> THEN <<>> ELSE <<found[1]>>

setRangesAlways(sel, transformedRanges, isBackward) ==
    [ranges |-> transformedRanges, isBackward |-> isBackward]

(* if ( transformedRanges.length ) selection.setRanges( transformedRanges, *)
(* selectionState.isBackward ): the selection after the statement.         *)
setRanges(sel, transformedRanges, isBackward) ==
    IF Len(transformedRanges) # 0
    THEN [ranges |-> transformedRanges, isBackward |-> isBackward]
    ELSE sel

(* The undo of the user batch 1, of one delta, has applied its one         *)
(* operation (batch 2) and is at the loop over the saved ranges.           *)
RestoreInit ==
    /\ selection = [ranges |-> <<[root |-> "main", start |-> 0, end |-> 0]>>,
                    isBackward |-> FALSE]
    /\ _items = [undo |-> <<>>,
                 redo |-> <<[batch |-> 2, selection |-> selection]>>]
    /\ _batchRegistry = [undo |-> {1}, redo |-> {2}]
    /\ isEnabled = [undo |-> TRUE, redo |-> TRUE]
    /\ type = [b \in Batches |-> IF b = 2 THEN "undo" ELSE "undefined"]
    /\ deltas = [b \in Batches |-> IF b <= 2 THEN 1 ELSE 0]
    /\ version = 2
    /\ last = [op |-> "undo", batch |-> 0, threw |-> FALSE]
    /\ history = <<1, 2>>
    /\ step = [pc |-> "scope", c |-> "undo", undoBatch |-> 1, undoDeltas |-> <<>>,
               reversionBatch |-> 2, deferred |-> FALSE, restored |-> FALSE,
               selDeltas |-> <<1, 2>>]
    /\ log = <<Event("getTransformedDelta", "undo", 1, 1, 1), Event("addDelta", "undo", 2, 1, 1),
               Event("applyOperation", "undo", 2, 1, 1), Event("addBatch", "redo", 2, 0, 0),
               Event("getDeltas", "undo", 1, 0, 0)>>
    /\ detachedOnly = {}
    /\ scan = NoScan
    /\ _originalDeltas = [c \in Commands |-> {}]
    /\ upDelta = NoDelta
    /\ \E n \in SnapshotSizes : \E b \in BOOLEAN :
           restore = [NoRestore EXCEPT !.pc = "transform", !.ranges = n, !.isBackward = b,
                                       !.originalRange = 1]

(* The saved range the loop is at has been transformed by every operation  *)
(* of the deltas: pieces is what is in `transformed` then.                 *)
RestoreTransform(pieces) ==
    /\ restore.pc = "transform"
    /\ restore.originalRange <= restore.ranges
    /\ restore' = [restore EXCEPT !.pc = "sort", !.transformed = pieces,
                                  !.roots = @ \cup {pieces[i].root : i \in DOMAIN pieces}]
    /\ UNCHANGED <<_items, _batchRegistry, isEnabled, type, deltas, version, selection, last,
                   history, step, log, detachedOnly, scan, fixVars>>

(* The pieces are sorted (to sorted) and merged, and the first one outside *)
(* the graveyard is kept.                                                  *)
RestorePick(sorted) ==
    /\ restore.pc = "sort"
    /\ restore' = [restore EXCEPT !.pc = "transform", !.transformed = <<>>,
                                  !.originalRange = @ + 1,
                                  !.transformedRanges = @ \o find(coalesce(sorted, 2))]
    /\ UNCHANGED <<_items, _batchRegistry, isEnabled, type, deltas, version, selection, last,
                   history, step, log, detachedOnly, scan, fixVars>>

(* After the loop: the selection is set, and the callback returns. *)
RestoreSet ==
    /\ restore.pc = "transform"
    /\ restore.originalRange > restore.ranges
    /\ selection' = setRanges(selection, restore.transformedRanges, restore.isBackward)
    /\ restore' = [restore EXCEPT !.pc = "done"]
    /\ step' = [step EXCEPT !.pc = "after", !.restored = TRUE]
    /\ log' = log \o (IF restore.transformedRanges = <<>>
                      THEN <<>>
                      ELSE <<Event("setRanges", step.c, step.undoBatch, 0, 0)>>)
    /\ UNCHANGED <<_items, _batchRegistry, isEnabled, type, deltas, version, last,
                   history, detachedOnly, scan, fixVars>>

RestoreNext ==
    \/ \E pieces \in Pieces : RestoreTransform(pieces)
    \/ \E sorted \in sort(restore.transformed) : RestorePick(sorted)
    \/ RestoreSet

RestoreSpec == RestoreInit /\ [][RestoreNext]_vars

----------------------------------------------------------------------------
(* ScanSpec: the loops that transform one saved range by the operations of *)
(* the deltas, one round of the innermost loop at a time.                  *)

(* The longest `transformed` followed. *)
MaxTransformed == 2 * MaxPieces

fixIteratorNot(t, length) == t

(* t = t + result.length - 1. *)
fixIterator(t, length) == t + length - 1

(* transformed.splice( t, 1, ...result ), t counted from 0. *)
splice(arr, t, result) == SubSeq(arr, 1, t) \o result \o SubSeq(arr, t + 2, Len(arr))

notScan ==
    <<_items, _batchRegistry, isEnabled, type, deltas, version, selection, last,
      history, step, log, detachedOnly, restore, fixVars>>

(* let transformed = [ originalRange ], for the next saved range. *)
ScanRange ==
    /\ scan.pc \in {"idle", "range"}
    /\ scan' = [NoScan EXCEPT !.pc = "range", !.transformed = <<[at |-> 1, made |-> FALSE]>>,
                              !.length = 1]
    /\ UNCHANGED notScan

(* The loop over transformed starts for the next operation. *)
ScanStart(handled) ==
    /\ scan.pc = "range"
    /\ scan' = [pc |-> "scan",
                transformed |-> [i \in 1..Len(scan.transformed) |-> [at |-> i, made |-> FALSE]],
                length |-> Len(scan.transformed), t |-> 0, handled |-> handled,
                visited |-> <<>>]
    /\ UNCHANGED notScan

(* One round of the loop: the range at t is transformed to a result of k   *)
(* ranges, which takes its place; for an operation the switch has no case  *)
(* for, result is undefined and the range stays.                           *)
ScanStep(k) ==
    LET t == scan.t
        range == scan.transformed[t + 1]
        result == [j \in 1..k |-> [at |-> range.at, made |-> TRUE]]
    IN  /\ scan.pc = "scan"
        /\ t < Len(scan.transformed)
        /\ Len(scan.transformed) - 1 + k <= MaxTransformed
        /\ IF scan.handled
           THEN scan' = [scan EXCEPT !.transformed = splice(@, t, result),
                                     !.t = fixIterator(t, k) + 1,
                                     !.visited = Append(@, [at |-> range.at, made |-> range.made,
                                                            size |-> k])]
           ELSE /\ k = 1
                /\ scan' = [scan EXCEPT !.t = t + 1,
                                        !.visited = Append(@, [at |-> range.at, made |-> range.made,
                                                               size |-> 1])]
        /\ UNCHANGED notScan

(* t < transformed.length is false: the loop is left. *)
ScanExit ==
    /\ scan.pc = "scan"
    /\ scan.t >= Len(scan.transformed)
    /\ scan' = [scan EXCEPT !.pc = "range"]
    /\ UNCHANGED notScan

ScanNext ==
    \/ ScanRange
    \/ \E handled \in BOOLEAN : ScanStart(handled)
    \/ \E k \in 0..MaxPieces : ScanStep(k)
    \/ ScanExit

ScanSpec == Init /\ [][ScanNext]_vars

----------------------------------------------------------------------------
(* FixSpec: postFix and the map of original deltas.  Here the history is   *)
(* the part of the document's history that the rounds read (the deltas     *)
(* after some version), and a delta of it is [kind, move, target, howMany]: the type of its batch ("none" *)
(* without batch), whether it is a MoveDelta, and the target position and  *)
(* the length of its move operation; a delta is named by its place in the  *)
(* history.  An entry of _originalDeltas is [delta, original]: the         *)
(* transformed delta and the source (or insertion) position of the first   *)
(* operation of its original.  Positions are offsets in one parent.        *)

MaxHistory == 2

Positions == {0, 1}

HowMany == {1, 2}

originalDeltasNew(c) == {}

(* const originalDeltas = this._originalDeltas. *)
originalDeltas(c) == _originalDeltas[c]

shiftTarget(upOp, howMany) == [upOp EXCEPT !.target = @ + howMany]

(* upOp.targetPosition.offset += hOp.howMany;                              *)
(* upOp.movedRangeStart.offset += hOp.howMany.                             *)
shift(upOp, howMany) == [upOp EXCEPT !.target = @ + howMany, !.start = @ + howMany]

(* originalDeltas.get( delta ): the entries of the map for the delta. *)
get(map, delta) == {e \in map : e.delta = delta}

(* postFix( deltas, historyDeltas ) for the one delta up, named upId; the  *)
(* history deltas are those of h from place i on.                          *)
RECURSIVE postFix(_, _, _, _, _)
postFix(up, upId, h, i, map) ==
    IF i > Len(h) \/ ~up.move
    THEN up
    ELSE IF ~h[i].move
    THEN postFix(up, upId, h, i + 1, map)
    ELSE IF h[i].kind \notin {"undo", "redo"}
    THEN postFix(up, upId, h, i + 1, map)
    ELSE IF up.target # h[i].target
    THEN postFix(up, upId, h, i + 1, map)
    ELSE IF get(map, upId) = {} \/ get(map, i) = {}
    THEN postFix(up, upId, h, i + 1, map)
    ELSE LET upPos == (CHOOSE e \in get(map, upId) : TRUE).original
             hPos == (CHOOSE e \in get(map, i) : TRUE).original
         IN  IF upPos > hPos
             THEN postFix(shift(up, h[i].howMany), upId, h, i + 1, map)
             ELSE postFix(up, upId, h, i + 1, map)

notFix ==
    <<_items, _batchRegistry, isEnabled, type, deltas, version, selection, last,
      step, log, detachedOnly, restore, scan>>

(* A delta applied outside the commands: of a batch of unset type, or      *)
(* without batch; a move of one node when it is a MoveDelta.               *)
FixChange(kind, move, target, howMany) ==
    /\ Len(history) < MaxHistory
    /\ history' = Append(history, [kind |-> kind, move |-> move, target |-> target,
                                   howMany |-> howMany])
    /\ UNCHANGED <<notFix, fixVars>>

(* One round of the loop over undoDeltas in a run of command c, the first  *)
(* round of a new run (fresh) or the next round of the run of the last     *)
(* round: the reversed delta, whose original has its first operation at    *)
(* `original`, is transformed to one delta (a MoveDelta to target and      *)
(* start, or another), set in the map, fixed against the history deltas    *)
(* from base version `from` on (history.getDeltas: the places after        *)
(* `from`), and applied.  The callback runs in one piece, so the next      *)
(* round of a run finds the delta of the last round at the end of the      *)
(* history.                                                                *)
FixStep(c, fresh, move, target, start, howMany, original, from) ==
    LET upId == Len(history) + 1
        map == originalDeltas(c) \cup {[delta |-> upId, original |-> original]}
        up == [NoDelta EXCEPT !.id = upId,
                              !.first = IF fresh THEN upId ELSE upDelta.first,
                              !.move = move, !.target0 = target, !.start0 = start,
                              !.target = target, !.start = start, !.from = from]
        fixed == postFix(up, upId, history, from + 1, map)
    IN  /\ Len(history) < MaxHistory
        /\ from = 0 \/ from < Len(history)
        /\ ~fresh => /\ upDelta.id = Len(history)
                     /\ upDelta.id # 0
                     /\ history[upDelta.id].kind = c
        /\ _originalDeltas' = [_originalDeltas EXCEPT ![c] = map]
        /\ upDelta' = fixed
        /\ history' = Append(history, [kind |-> c, move |-> move, target |-> fixed.target,
                                       howMany |-> howMany])
        /\ UNCHANGED notFix

FixNext ==
    \/ \E kind \in {"undefined", "none"} :
           \/ FixChange(kind, FALSE, 0, 0)
           \/ \E target \in Positions : FixChange(kind, TRUE, target, 1)
    \/ \E c \in Commands : \E fresh \in BOOLEAN : \E original \in Positions :
       \E from \in 0..MaxHistory :
           \/ FixStep(c, fresh, FALSE, 0, 0, 0, original, from)
           \/ \E target \in Positions : \E start \in Positions : \E howMany \in HowMany :
                  FixStep(c, fresh, TRUE, target, start, howMany, original, from)

(* The state after construction with both commands refreshed: both stacks  *)
(* are empty, so both commands are disabled.                               *)
FixInit ==
    /\ Init
    /\ isEnabled = [c \in Commands |-> Len(_items[c]) > 0]

FixSpec == FixInit /\ [][FixNext]_vars

----------------------------------------------------------------------------
(* The claims. *)

batchesOf(items) == {items[i].batch : i \in 1..Len(items)}

opposite(c) == IF c = "undo" THEN "redo" ELSE "undo"

(* The batch the step of this transition took off the stack of command c. *)
popped(c) == batchesOf(_items[c]) \ batchesOf(_items'[c])

(* The reversion batch this transition emitted: it had no delta before. *)
emitted(r) == deltas[r] = 0 /\ deltas'[r] # 0 /\ last'.op \in Commands

(* C1: right after the change listener has processed a batch of the unset  *)
(* (user) type, the redo stack is empty and that batch is on the undo      *)
(* stack.                                                                  *)
C1_RedoClearance ==
    (last.op = "change" /\ type[last.batch] = "undefined") =>
        /\ _items["redo"] = <<>>
        /\ last.batch \in batchesOf(_items["undo"])

(* C2: the reversion batch a step emits, of type K, is on the stack of the *)
(* opposite command and not on the stack of command K, and recording it    *)
(* does not clear the redo stack: an undo step only appends to the redo    *)
(* stack, a redo step takes exactly one item off it.                       *)
C2_KindRouting ==
    [][\A r \in Batches : emitted(r) =>
          LET K == type'[r]
          IN  /\ K \in Commands
              /\ r \in batchesOf(_items'[opposite(K)])
              /\ r \notin batchesOf(_items'[K])
              /\ IF K = "undo"
                 THEN /\ Len(_items'["redo"]) = Len(_items["redo"]) + 1
                      /\ SubSeq(_items'["redo"], 1, Len(_items["redo"])) = _items["redo"]
                 ELSE /\ Len(_items'["redo"]) = Len(_items["redo"]) - 1
                      /\ batchesOf(_items'["redo"]) \subseteq batchesOf(_items["redo"])]_vars

C2_Witness ==
    /\ last.op = "undo"
    /\ Len(_items["redo"]) >= 2
    /\ \A i \in 1..Len(_items["redo"]) : type[_items["redo"][i].batch] = "undo"

C4_KindCycle ==
    [][\A r \in Batches : emitted(r) =>
          \A b \in popped(last'.op) :
              type'[r] = (IF type[b] = "undo" THEN "redo" ELSE "undo")]_vars

(* A "redo" batch has been reverted by an undo step that emitted. *)
C4_Witness ==
    /\ last.op = "undo"
    /\ \E b, r \in Batches :
           /\ type[b] = "redo" /\ deltas[b] # 0
           /\ b \notin batchesOf(_items["undo"])
           /\ r > b /\ type[r] = "undo"
           /\ r \in batchesOf(_items["redo"])

(* C5: no batch is on the undo stack and on the redo stack at once. *)
C5_StackDisjointness ==
    batchesOf(_items["undo"]) \cap batchesOf(_items["redo"]) = {}

C5_Witness ==
    /\ _items["undo"] # <<>>
    /\ _items["redo"] # <<>>

(* C6: a change of a batch its stack already holds leaves that stack as it *)
(* is (its length and the selection stored with the item), and a stack     *)
(* never holds two items of one batch.                                     *)
C6_Dedup ==
    [][/\ \A c \in Commands : \A i, j \in 1..Len(_items'[c]) :
              _items'[c][i].batch = _items'[c][j].batch => i = j
       /\ last'.op = "change" =>
              LET c == IF type[last'.batch] = "undo" THEN "redo" ELSE "undo"
              IN  last'.batch \in batchesOf(_items[c]) => _items'[c] = _items[c]]_vars

(* A second change of a batch on the undo stack, the selection having      *)
(* moved since the first.                                                  *)
C6_Witness ==
    /\ last.op = "change"
    /\ deltas[last.batch] >= 2
    /\ \E i \in 1..Len(_items["undo"]) :
           /\ _items["undo"][i].batch = last.batch
           /\ _items["undo"][i].selection # selection

(* C7: the batch a step took off a stack is no longer in that stack's      *)
(* registry, with or without a batch argument.                             *)
C7_ReentryAfterPop ==
    [][\A c \in Commands : last'.op = c =>
          \A b \in popped(c) : b \notin _batchRegistry'[c]]_vars

(* C8: clearStack leaves the stack with no item and an empty registry (the *)
(* listener clears the redo stack on every change of an unset-type batch). *)
C8_ClearEmptiesRegistry ==
    (last.op = "change" /\ type[last.batch] = "undefined") =>
        /\ _items["redo"] = <<>>
        /\ _batchRegistry["redo"] = {}

(* C9: a step given a batch that is not on its stack changes neither       *)
(* stack and applies no operation.                                         *)
C9_NotFoundNoOp ==
    [][\A c \in Commands :
          (last'.op = c /\ last'.batch # 0 /\ last'.batch \notin batchesOf(_items[c])) =>
              /\ _items' = _items
              /\ version' = version]_vars

(* C10: a step triggered while its stack is empty throws nothing, applies  *)
(* no operation and changes neither the stacks nor the selection.          *)
C10_EmptyStackNoOp ==
    [][\A c \in Commands : (last'.op = c /\ _items[c] = <<>>) =>
          /\ ~last'.threw
          /\ _items' = _items
          /\ version' = version
          /\ selection' = selection]_vars

(* C11: when an operation of the reversion fails to apply, the item being  *)
(* reverted is on the stack it was taken from after the failure.           *)
C11_FailureRestoresStack ==
    [][\A c \in Commands : (last'.op = c /\ last'.threw) => popped(c) = {}]_vars

(* C12: after every mutation of a command's stack the command is enabled   *)
(* iff its stack is non-empty.                                             *)
C12_EnabledTracksEmptiness ==
    [][\A c \in Commands : _items'[c] # _items[c] =>
          (isEnabled'[c] <=> _items'[c] # <<>>)]_vars

(* The places of log that hold event e. *)
logPlaces(e) == {i \in DOMAIN log : log[i].e = e}

(* C13: a step that reverts an item emits exactly one 'revert', carrying   *)
(* the original batch, and only after all operations of the reversion are  *)
(* applied and the selection restoration has run, also when the step was   *)
(* started while another enqueued change was pending.                      *)
C13_RevertAfterReversion ==
    /\ \A i \in logPlaces("revert") :
          /\ log[i].batch = step.undoBatch
          /\ logPlaces("revert") = {i}
          /\ step.restored
          /\ \A j \in logPlaces("applyOperation") \cup logPlaces("getDeltas")
                        \cup logPlaces("setRanges") : j < i
    /\ (step.pc = "idle" /\ step.c # "none" /\ ~last.threw) => logPlaces("revert") # {}

(* C14: whenever the undo command fires 'revert' with a batch, the redo    *)
(* command's addBatch is then invoked exactly once for that batch, and the *)
(* redo stack is not cleared.                                              *)
C14_RevertRecordedByRedo ==
    \A i \in logPlaces("revert") :
        log[i].c = "undo" =>
            /\ Cardinality({j \in logPlaces("addBatch") :
                               j > i /\ log[j].c = "redo" /\ log[j].batch = log[i].batch}) = 1
            /\ \A j \in logPlaces("clearStack") : j > i => log[j].c # "redo"

(* C15: a batch delivered on the change stream is recorded on a stack iff  *)
(* at least one of its operations touches a document root: a batch of      *)
(* operations on detached fragments only is on neither stack.              *)
C15_NonDocumentGuard ==
    \A c \in Commands : batchesOf(_items[c]) \cap detachedOnly = {}

(* The run of the step has left the loop over undoDeltas without a throw. *)
loopDone == step.c # "none" /\ step.undoDeltas = <<>> /\ ~last.threw

(* The number of deltas of the batch being reverted. *)
undoBatchDeltas == IF step.undoBatch = 0 THEN 0 ELSE deltas[step.undoBatch]

(* The places of log that belong to delta d of undoBatch and hold event e. *)
deltaPlaces(e, d) == {i \in logPlaces(e) : log[i].d = d}

(* C16: for a batch with deltas d1..dn a step reverses and transforms them *)
(* in the order dn, ..., d1; every operation of the deltas one of them was *)
(* transformed to is applied before the next one is reversed and           *)
(* transformed; the transformed deltas are added to the one reversion      *)
(* batch in that same order.                                               *)
C16_ReversalOrder ==
    LET T == logPlaces("getTransformedDelta")
        A == logPlaces("addDelta")
        O == logPlaces("applyOperation")
    IN  /\ \A t \in T : log[t].d = undoBatchDeltas + 1 - Cardinality({u \in T : u <= t})
        /\ \A i \in A \cup O :
              \E t \in T : /\ t < i
                           /\ log[t].d = log[i].d
                           /\ \A u \in T : u > t => u > i
        /\ \A t \in T : \A u \in T :
              u > t => Cardinality(deltaPlaces("applyOperation", log[t].d)) = log[t].j
        /\ \A i \in A :
              /\ log[i].batch = step.reversionBatch
              /\ log[i].j = Cardinality({a \in deltaPlaces("addDelta", log[i].d) : a <= i})
        /\ \A i \in O : i - 1 \in A /\ log[i - 1].d = log[i].d /\ log[i - 1].j = log[i].j
        /\ loopDone => Cardinality(T) = undoBatchDeltas

(* A batch of two deltas or more has been reverted, each delta to one      *)
(* operation or more.                                                      *)
C16_Witness ==
    /\ loopDone
    /\ Cardinality(logPlaces("getTransformedDelta")) >= 2
    /\ \A t \in logPlaces("getTransformedDelta") : log[t].j >= 1
    /\ Cardinality(logPlaces("applyOperation")) >= 2

(* C17: when the transform returns no deltas for one reversed delta, the   *)
(* step skips that delta and still reverts every other delta of the batch, *)
(* and the item is off its stack.                                          *)
C17_TransformFailureSkips ==
    loopDone =>
        /\ \A d \in 1..undoBatchDeltas :
              \E t \in deltaPlaces("getTransformedDelta", d) :
                  Cardinality(deltaPlaces("applyOperation", d)) = log[t].j
        /\ step.undoBatch \notin batchesOf(_items[step.c])

(* A delta was transformed to no delta and a later one of the same run to  *)
(* one or more.                                                            *)
C17_Witness ==
    /\ loopDone
    /\ \E t \in logPlaces("getTransformedDelta") :
       \E u \in logPlaces("getTransformedDelta") :
           t < u /\ log[t].j = 0 /\ log[u].j > 0

(* C18: the history deltas used to transform the saved ranges are the      *)
(* history as it was before the reversion began: none of them was applied  *)
(* by the step itself.                                                     *)
C18_SelectionHistoryBefore ==
    step.restored =>
        \A i \in DOMAIN step.selDeltas : step.selDeltas[i] # step.reversionBatch

(* C18 as the code has it: the deltas used to transform the saved ranges   *)
(* are read after the loop: they are the history from the base version of  *)
(* the batch's first delta to the end, the deltas the step applied         *)
(* included.                                                               *)
C18_SelectionHistoryAtRestore ==
    step.restored =>
        LET first == CHOOSE i \in DOMAIN history :
                         history[i] = step.undoBatch /\ \A k \in 1..(i - 1) : history[k] # step.undoBatch
        IN  /\ step.selDeltas = [i \in 1..(Len(history) - first + 1) |-> history[first + i - 1]]
            /\ Cardinality({i \in DOMAIN step.selDeltas : step.selDeltas[i] = step.reversionBatch})
                   = Cardinality(logPlaces("applyOperation"))

(* The saved ranges were transformed by a delta of the batch, a delta of   *)
(* another batch applied after it, and a delta of the step.                *)
C18_Witness ==
    /\ step.restored
    /\ \E i \in DOMAIN step.selDeltas : step.selDeltas[i] = step.reversionBatch
    /\ \E i \in DOMAIN step.selDeltas : step.selDeltas[i] \notin {step.reversionBatch, step.undoBatch}

(* C19: for every saved range, after the transformation, the sort and the  *)
(* merge, the step adds to the restored selection the first piece outside  *)
(* the graveyard, or nothing when there is none: the restored selection    *)
(* has no more ranges than the snapshot, in the snapshot's order.  Where   *)
(* the comparator orders every two pieces the piece added starts at the    *)
(* least start.                                                            *)
C19_OneSurvivor ==
    [][(restore.pc = "sort" /\ restore'.pc = "transform") =>
          LET t == restore.transformed
              main == {i \in DOMAIN t : t[i].root # "graveyard"}
              ordered == \A i, j \in DOMAIN t : i # j => (isBefore(t[i], t[j]) \/ isBefore(t[j], t[i]))
          IN  /\ Len(restore'.transformedRanges) <= restore.originalRange
              /\ restore.originalRange <= restore.ranges
              /\ IF main = {}
                 THEN restore'.transformedRanges = restore.transformedRanges
                 ELSE \E r \in Ranges :
                         /\ restore'.transformedRanges = Append(restore.transformedRanges, r)
                         /\ r.root # "graveyard"
                         /\ \E i \in main : r.start = t[i].start
                         /\ \E i \in main : r.end = t[i].end
                         /\ ordered => \A i \in main : r.start <= t[i].start]_vars

(* Of two saved ranges with pieces in the graveyard and outside it one has *)
(* given a range to the restored selection, a merged or unmerged piece     *)
(* that is not collapsed.                                                  *)
C19_Witness ==
    /\ restore.pc = "done"
    /\ restore.ranges = 2
    /\ Len(restore.transformedRanges) = 1
    /\ restore.roots = Roots
    /\ restore.transformedRanges[1].start < restore.transformedRanges[1].end

(* C20: when every piece of every saved range is in the graveyard the step *)
(* sets no selection, the ranges and the direction of the document         *)
(* selection stay as they were; the item is off its stack and the          *)
(* reversion applied all the same.                                         *)
C20_GraveyardPolicy ==
    [][(restore.pc = "transform" /\ restore'.pc = "done" /\ restore.roots \subseteq {"graveyard"}) =>
          /\ selection' = selection
          /\ step.undoBatch \notin batchesOf(_items'[step.c])
          /\ history' = history
          /\ \E i \in DOMAIN history' : history'[i] = step.reversionBatch]_vars

(* A snapshot whose ranges all went to the graveyard has been through the  *)
(* selection part.                                                         *)
C20_Witness ==
    /\ restore.pc = "done"
    /\ restore.ranges >= 1
    /\ restore.roots = {"graveyard"}
    /\ restore.isBackward

(* C21: for each operation, every range that is in `transformed` when the  *)
(* scan of the operation starts is transformed by it exactly once, in      *)
(* order; no range the operation made is transformed by it again and none  *)
(* is skipped, whatever the sizes of the results, none and several         *)
(* included; the scan takes as many rounds as there were ranges.           *)
C21_SpliceIndex ==
    LET v == scan.visited
        tr == scan.transformed
        t == scan.t
    IN  /\ t <= Len(tr)
        /\ \A i \in DOMAIN v : v[i].at = i /\ ~v[i].made
        /\ Len(v) + Len(tr) - t = scan.length
        /\ \A i \in (t + 1)..Len(tr) : tr[i] = [at |-> Len(v) + i - t, made |-> FALSE]
        /\ scan.handled =>
              /\ \A i \in 1..t : tr[i].made /\ tr[i].at \in DOMAIN v
              /\ \A j \in DOMAIN v : Cardinality({i \in 1..t : tr[i].at = j}) = v[j].size
              /\ \A i \in 1..t : \A j \in 1..t : i < j => tr[i].at <= tr[j].at
        /\ ~scan.handled => \A i \in 1..t : tr[i] = [at |-> i, made |-> FALSE]

(* An operation has been through an array of three ranges or more, with a  *)
(* result of no range for one and of several ranges for another.           *)
C21_Witness ==
    /\ scan.pc = "range"
    /\ scan.handled
    /\ scan.length >= 3
    /\ Len(scan.visited) = scan.length
    /\ \E i \in DOMAIN scan.visited : \E j \in DOMAIN scan.visited :
           i < j /\ scan.visited[i].size = 0 /\ scan.visited[j].size >= 2


(* The history deltas of the last round that postFix passes on to the      *)
(* comparison of targets, and the sum of the lengths of the moves in S.    *)
consulted ==
    {i \in (upDelta.from + 1)..(upDelta.id - 1) :
        history[i].move /\ history[i].kind \in {"undo", "redo"}}

RECURSIVE howManyOf(_)
howManyOf(S) ==
    IF S = {}
    THEN 0
    ELSE LET i == CHOOSE j \in S : TRUE
         IN  history[i].howMany + howManyOf(S \ {i})

(* C22: postFix moves the target position and the moved-range start of a   *)
(* transformed move delta by the same amount, and that amount is the sum of *)
(* the lengths of history move deltas of batches of type undo or redo, each *)
(* with its target at the delta's target when it is met; deltas of other    *)
(* batches or without batch add nothing, and a delta that is no move delta  *)
(* is left alone.                                                          *)
C22_PostFixScope ==
    upDelta.id # 0 =>
        /\ upDelta.start - upDelta.start0 = upDelta.target - upDelta.target0
        /\ ~upDelta.move => upDelta.target = upDelta.target0
        /\ \E S \in SUBSET consulted :
               /\ upDelta.target - upDelta.target0 = howManyOf(S)
               /\ \A i \in S :
                      history[i].target
                          = upDelta.target0 + howManyOf({j \in S : j < i})

(* A move delta whose target and moved-range start differ has been shifted *)
(* by 2.                                                                   *)
C22_Witness ==
    /\ upDelta.move
    /\ upDelta.start0 # upDelta.target0
    /\ upDelta.target = upDelta.target0 + 2
    /\ upDelta.start = upDelta.start0 + 2


(* C23 as stated: the map of original deltas lives for one run of           *)
(* _doExecute; it holds no entry set by an earlier run, and postFix moves   *)
(* a delta only on account of deltas of its own run.                        *)
C23_MapScopedToStep ==
    /\ \A c \in Commands : \A e \in _originalDeltas[c] : e.delta >= upDelta.first
    /\ \E S \in SUBSET {i \in consulted : i >= upDelta.first} :
           upDelta.target - upDelta.target0 = howManyOf(S)

(* C23, amended: the map of original deltas belongs to the command and     *)
(* lives as long as it.  Every delta that a run of a command has applied   *)
(* keeps its entry in the map of that command, and has none in the map of  *)
(* the other command, through every later run; and postFix moves a delta   *)
(* only on account of deltas applied by runs of the same command.          *)
C23_MapKeptByCommand ==
    /\ \A i \in DOMAIN history : \A c \in Commands :
           (get(_originalDeltas[c], i) # {}) <=> (history[i].kind = c)
    /\ \A c \in Commands : \A e \in _originalDeltas[c] : e.delta \in DOMAIN history
    /\ upDelta.id # 0 =>
           \E S \in SUBSET {i \in consulted : history[i].kind = history[upDelta.id].kind} :
               upDelta.target - upDelta.target0 = howManyOf(S)

(* The first round of a run has moved its delta: the entry it met was set  *)
(* by an earlier run of the same command.                                  *)
C23_Witness ==
    /\ upDelta.id # 0
    /\ upDelta.first = upDelta.id
    /\ upDelta.target > upDelta.target0
    /\ \E e \in _originalDeltas[history[upDelta.id].kind] : e.delta < upDelta.first

====
